---- MODULE Spec2Model ----
(***************************************************************************)
(* kas-vanity: a concurrent vanity-address search.                         *)
(*                                                                         *)
(* main (src/src/main.rs) parses the arguments, normalizes and validates   *)
(* the prefix/suffix patterns, then runs an endless parallel loop whose    *)
(* iterations each generate a mnemonic, derive a batch of addresses        *)
(* (src/src/vanity.rs), count them and scan them against the patterns.     *)
(* The first worker to match prints a report, stores `found` and exits     *)
(* the process.                                                            *)
(*                                                                         *)
(* Text is modelled as sequences of one-character strings.                 *)
(***************************************************************************)
EXTENDS Integers, Sequences, FiniteSets, TLC

VARIABLES
    args,        \* the parsed Args record (main.rs:20-48, 71)
    mainpc,      \* position of the main thread (where it was, once exited)
    prefix,      \* normalized prefix: Option<String> (main.rs:98)
    suffix,      \* normalized suffix: Option<String> (main.rs:104)
    exitStatus,  \* Running while the process lives, else its exit status
    found,       \* AtomicBool `found` (main.rs:127)
    counter,     \* AtomicU64 `counter` (main.rs:128)
    pc,          \* per worker: position inside the for_each closure
    mnemonic,    \* per worker: the iteration's mnemonic
    addresses,   \* per worker: the derived batch, Vec<(u32, Address)>
    pos,         \* per worker: how many pairs of the batch were scanned
    out,         \* per worker: what the current iteration printed so far
    reports,     \* the match reports on stdout, in the order they were begun
    input,       \* argument of a function applied on its own
    output       \* its result

vars == <<args, mainpc, prefix, suffix, exitStatus, found, counter, pc,
          mnemonic, addresses, pos, out, reports, input, output>>

-----------------------------------------------------------------------------
(* Bounds of the model *)

\* longest prefix the arguments may carry
MaxPrefixLen == 2
\* longest suffix the arguments may carry
MaxSuffixLen == 1
\* longest searchable tail of an address text given to the matcher
MaxTailLen == 2
\* largest --scan-limit of the concurrent search
MaxScanLimit == 2
\* the concurrent search is followed until `counter` reaches this value
MaxProcessed == 4
\* width of `counter` in the endless search; the source's u64 has 64 bits
CounterBits == 2
\* child keys of index 0..MaxFailIndex may fail to derive in derive_batch
\* applied on its own
MaxFailIndex == 2
\* largest word count given to generate_random_mnemonic applied on its own
MaxWordCount == 63
\* largest --scan-limit of the search followed past the first progress mark
MaxProgressLimit == 3
\* that search is followed until `counter` is this far past the mark
MaxBeyond == 3

-----------------------------------------------------------------------------
(* Text *)

\* Option<String>
None == [some |-> FALSE, val |-> <<>>]
Some(s) == [some |-> TRUE, val |-> s]

\* all texts over alphabet A of length lo..hi
TextsOver(A, lo, hi) == UNION {[1..n -> A] : n \in lo..hi}

\* char::to_lowercase on the characters the model uses
to_lowercase_char(c) ==
    CASE c = "A" -> "a"
      [] c = "B" -> "b"
      [] c = "C" -> "c"
      [] OTHER -> c

\* str::to_lowercase
to_lowercase(s) == [i \in 1..Len(s) |-> to_lowercase_char(s[i])]

\* str::starts_with
starts_with(s, p) == Len(p) <= Len(s) /\ SubSeq(s, 1, Len(p)) = p

\* str::ends_with
ends_with(s, p) == Len(p) <= Len(s) /\ SubSeq(s, Len(s) - Len(p) + 1, Len(s)) = p

\* positions of ':' in s
ColonsOf(s) == {i \in 1..Len(s) : s[i] = ":"}

Min(S) == CHOOSE x \in S : \A y \in S : x <= y

\* addr_str.split(':').nth(1).unwrap_or(""): the piece between the first ':'
\* and the second (or the end); "" when there is no ':'
payload_of(addr_str) ==
    IF ColonsOf(addr_str) = {} THEN <<>>
    ELSE LET first == Min(ColonsOf(addr_str))
             later == {i \in ColonsOf(addr_str) : i > first}
             stop  == IF later = {} THEN Len(addr_str) + 1 ELSE Min(later)
         IN  SubSeq(addr_str, first + 1, stop - 1)

\* let searchable = if payload.len() > 2 { &payload[2..] } else { "" };
searchable_of(payload) ==
    IF Len(payload) > 2 THEN SubSeq(payload, 3, Len(payload)) ELSE <<>>

-----------------------------------------------------------------------------
(* Pattern normalization and validation *)

\* const INVALID_CHARS: &[char] = &['1', 'b', 'i', 'o'];
InvalidCharsButO == {"1", "b", "i"}

INVALID_CHARS == {"1", "b", "i", "o"}

\* if args.case_sensitive { p } else { p.to_lowercase() }
NormalizeKeepCase(p, case_sensitive) == p

normalize(p, case_sensitive) ==
    IF case_sensitive THEN p ELSE to_lowercase(p)

\* validate_pattern: TRUE when it ends the process with status 1
validate_pattern(pattern, invalid_chars) ==
    \E i \in 1..Len(pattern) : pattern[i] \in invalid_chars

-----------------------------------------------------------------------------
(* The matcher: the body of the scan loop *)

\* prefix.as_ref().is_none_or(|p| ...)
prefix_match(pfx, case_sensitive, searchable) ==
    \/ ~pfx.some
    \/ IF case_sensitive
       THEN starts_with(searchable, pfx.val)
       ELSE starts_with(to_lowercase(searchable), pfx.val)

\* suffix.as_ref().is_none_or(|s| ...)
suffix_match(sfx, case_sensitive, searchable) ==
    \/ ~sfx.some
    \/ IF case_sensitive
       THEN ends_with(searchable, sfx.val)
       ELSE ends_with(to_lowercase(searchable), sfx.val)

\* if prefix_match && suffix_match
IsMatchEither(addr_str, pfx, sfx, case_sensitive) ==
    \E searchable \in {searchable_of(payload_of(addr_str))} :
        \/ prefix_match(pfx, case_sensitive, searchable)
        \/ suffix_match(sfx, case_sensitive, searchable)

is_match(addr_str, pfx, sfx, case_sensitive) ==
    \E searchable \in {searchable_of(payload_of(addr_str))} :
        /\ prefix_match(pfx, case_sensitive, searchable)
        /\ suffix_match(sfx, case_sensitive, searchable)

-----------------------------------------------------------------------------
(* Mnemonics, keys and addresses (vanity.rs) *)

\* The worker threads of the rayon pool (main.rs:85-90, 133)
Workers == {"w1", "w2"}

\* width of a child index in the model; the source's u32 has 32 bits
IndexBits == 4
\* bip32::ChildNumber::HARDENED_FLAG: the top bit of the index
HARDENED_FLAG == 2 ^ (IndexBits - 1)
\* length of the fixed path m/44'/111111'/0'/0 (vanity.rs:44)
PathDepth == 4

\* let entropy_len = match word_count { 12 => 16, 24 => 32, _ => 32 };
EntropyLenOfWords(word_count) ==
    CASE word_count = 12 -> 16
      [] word_count = 24 -> 24
      [] OTHER -> 32

entropy_len_of(word_count) ==
    CASE word_count = 12 -> 16
      [] word_count = 24 -> 32
      [] OTHER -> 32

\* Mnemonic::from_entropy accepts 128..256 bits of entropy in steps of 32
from_entropy_ok(entropy_len) == entropy_len \in {16, 20, 24, 28, 32}

\* Mnemonic::word_count of a mnemonic made of entropy_len bytes: one word
\* for each 11 bits of entropy plus checksum (entropy_len * 8 * 33 / 32 / 11)
word_count_of(entropy_len) == (entropy_len * 3) \div 4

\* generate_random_mnemonic(word_count): the length of the entropy drawn and
\* the word count of the phrase made of it; expect() panics when
\* from_entropy turns the entropy down
generate_random_mnemonic(word_count) ==
    LET entropy_len == entropy_len_of(word_count)
    IN  IF from_entropy_ok(entropy_len)
        THEN [panic |-> FALSE, entropy_len |-> entropy_len,
              words |-> word_count_of(entropy_len)]
        ELSE [panic |-> TRUE, entropy_len |-> entropy_len, words |-> 0]

\* A mnemonic is the random entropy drawn; the model keeps of it what the
\* derivation makes of it:
\*   words  its word count
\*   root   0 when the shared root derives, 1 when XPrv::new fails, 1 + j
\*          when level j of the fixed path fails
\*   fail   the address indices whose child key fails to derive
\*   keys   the bech32 payload of the address at index i, as keys[i + 1]
MnemonicsOf(words, roots, fails, keyseqs) ==
    {m \in [words : words, root : roots, fail : fails, keys : keyseqs] :
        m.root # 0 => (m.fail = {} /\ \A i \in 1..Len(m.keys) : m.keys[i] = m.keys[1])}

\* no mnemonic: the local of an iteration that has not generated one
NoMnemonic == [words |-> 0, root |-> 0, fail |-> {}, keys |-> <<>>]

\* Address::new(Prefix::Mainnet, Version::PubKey, x_only_pubkey)
Address(payload) ==
    [prefix |-> "Mainnet", version |-> "PubKey", payload |-> payload]

\* the text of kaspa_addresses::Prefix
prefix_text(p) ==
    IF p = "Mainnet" THEN <<"k", "a", "s", "p", "a">>
    ELSE <<"k", "a", "s", "p", "a", "t", "e", "s", "t">>

\* address.to_string(): "<network-tag>:<payload>"
to_string(address) == prefix_text(address.prefix) \o <<":">> \o address.payload

\* for index in 0..limit { ... }: the loop of derive_batch from `index` on.
\* ChildNumber::new(index, false).unwrap() panics on an index with the
\* hardened bit set; a child key that fails to derive is skipped.
RECURSIVE DeriveLoopAbort(_, _, _, _)
DeriveLoopAbort(m, limit, index, results) ==
    IF index >= limit THEN [panic |-> FALSE, results |-> results]
    ELSE IF index >= HARDENED_FLAG THEN [panic |-> TRUE, results |-> results]
    ELSE IF index \in m.fail THEN [panic |-> FALSE, results |-> results]
    ELSE DeriveLoopAbort(m, limit, index + 1,
             Append(results, <<index, Address(m.keys[index + 1])>>))

RECURSIVE DeriveLoopRenumbered(_, _, _, _)
DeriveLoopRenumbered(m, limit, index, results) ==
    IF index >= limit THEN [panic |-> FALSE, results |-> results]
    ELSE IF index >= HARDENED_FLAG THEN [panic |-> TRUE, results |-> results]
    ELSE IF index \in m.fail THEN DeriveLoopRenumbered(m, limit, index + 1, results)
    ELSE DeriveLoopRenumbered(m, limit, index + 1,
             Append(results, <<Len(results), Address(m.keys[index + 1])>>))

RECURSIVE derive_loop(_, _, _, _)
derive_loop(m, limit, index, results) ==
    IF index >= limit THEN [panic |-> FALSE, results |-> results]
    ELSE IF index >= HARDENED_FLAG THEN [panic |-> TRUE, results |-> results]
    ELSE IF index \in m.fail THEN derive_loop(m, limit, index + 1, results)
    ELSE derive_loop(m, limit, index + 1,
             Append(results, <<index, Address(m.keys[index + 1])>>))

\* derive_batch(mnemonic, limit)
derive_batch(m, limit) ==
    IF m.root # 0 THEN [panic |-> FALSE, results |-> <<>>]
    ELSE derive_loop(m, limit, 0, <<>>)

-----------------------------------------------------------------------------
(* The process *)

\* exitStatus: no exit yet, or std::process::exit(code)
Alive == <<>>
Exited(code) == <<code>>

\* progress is printed when the counter's value is a multiple of this
ReportEvery == 1000

\* lines printed by one iteration
WarningLine == [kind |-> "warning", n |-> 0]
ProgressLine(n) == [kind |-> "progress", n |-> n]

\* a report not begun
NoReport == [stage |-> 0, address |-> <<>>, mnemonic |-> <<>>, index |-> <<>>]

Searching == mainpc = "running" /\ exitStatus = Alive

\* main.rs:74-82: neither pattern given: usage, exit(1)
CheckArgs ==
    /\ mainpc = "check_args" /\ exitStatus = Alive
    /\ IF ~args.prefix.some /\ ~args.suffix.some
       THEN /\ exitStatus' = Exited(1)
            /\ UNCHANGED mainpc
       ELSE /\ mainpc' = "prefix"
            /\ UNCHANGED exitStatus
    /\ UNCHANGED <<args, prefix, suffix, found, counter, pc, mnemonic,
                   addresses, pos, out, reports, input, output>>

\* main.rs:98-102: normalize the prefix, then validate_pattern (exit(1))
NormalizePrefix ==
    /\ mainpc = "prefix" /\ exitStatus = Alive
    /\ LET normalized == normalize(args.prefix.val, args.case_sensitive)
       IN  IF args.prefix.some /\ validate_pattern(normalized, INVALID_CHARS)
           THEN /\ exitStatus' = Exited(1)
                /\ UNCHANGED <<prefix, mainpc>>
           ELSE /\ prefix' = IF args.prefix.some THEN Some(normalized) ELSE None
                /\ mainpc' = "suffix"
                /\ UNCHANGED exitStatus
    /\ UNCHANGED <<args, suffix, found, counter, pc, mnemonic, addresses,
                   pos, out, reports, input, output>>

\* main.rs:104-108: normalize the suffix, then validate_pattern (exit(1))
NormalizeSuffix ==
    /\ mainpc = "suffix" /\ exitStatus = Alive
    /\ LET normalized == normalize(args.suffix.val, args.case_sensitive)
       IN  IF args.suffix.some /\ validate_pattern(normalized, INVALID_CHARS)
           THEN /\ exitStatus' = Exited(1)
                /\ UNCHANGED <<suffix, mainpc>>
           ELSE /\ suffix' = IF args.suffix.some THEN Some(normalized) ELSE None
                /\ mainpc' = "init"
                /\ UNCHANGED exitStatus
    /\ UNCHANGED <<args, prefix, found, counter, pc, mnemonic, addresses,
                   pos, out, reports, input, output>>

\* main.rs:110-133: the atomics are created and the parallel loop starts
StartSearch ==
    /\ mainpc = "init" /\ exitStatus = Alive
    /\ found' = FALSE
    /\ counter' = 0
    /\ mainpc' = "running"
    /\ UNCHANGED <<args, prefix, suffix, exitStatus, pc, mnemonic, addresses,
                   pos, out, reports, input, output>>

\* main.rs:134-136: if found.load(Relaxed) { return; }
LoadFoundIgnored(w) ==
    /\ Searching /\ pc[w].at = "load"
    /\ pc' = [pc EXCEPT ![w] = [at |-> "generate", read |-> found]]
    /\ out' = [out EXCEPT ![w] = <<>>]
    /\ UNCHANGED <<args, mainpc, prefix, suffix, exitStatus, found, counter,
                   mnemonic, addresses, pos, reports, input, output>>

LoadFound(w) ==
    /\ Searching /\ pc[w].at = "load"
    /\ pc' = [pc EXCEPT ![w] = [at |-> IF found THEN "load" ELSE "generate",
                                read |-> found]]
    /\ out' = [out EXCEPT ![w] = <<>>]
    /\ UNCHANGED <<args, mainpc, prefix, suffix, exitStatus, found, counter,
                   mnemonic, addresses, pos, reports, input, output>>

\* main.rs:138, vanity.rs:14-30: generate_random_mnemonic(args.words); the
\* random entropy is one of `universe`. expect() panics when from_entropy fails.
Generate(w, universe) ==
    /\ Searching /\ pc[w].at = "generate"
    /\ LET entropy_len == entropy_len_of(args.words)
       IN  IF from_entropy_ok(entropy_len)
           THEN /\ \E m \in universe :
                     /\ m.words = word_count_of(entropy_len)
                     /\ mnemonic' = [mnemonic EXCEPT ![w] = m]
                /\ pc' = [pc EXCEPT ![w].at = "derive"]
           ELSE /\ pc' = [pc EXCEPT ![w].at = "panicked"]
                /\ UNCHANGED mnemonic
    /\ UNCHANGED <<args, mainpc, prefix, suffix, exitStatus, found, counter,
                   addresses, pos, out, reports, input, output>>

\* main.rs:141-146: derive the batch; an empty batch is warned about and
\* ends the iteration
Derive(w) ==
    /\ Searching /\ pc[w].at = "derive"
    /\ LET r == derive_batch(mnemonic[w], args.scan_limit)
       IN  IF r.panic
           THEN /\ pc' = [pc EXCEPT ![w].at = "panicked"]
                /\ UNCHANGED <<addresses, out, mnemonic>>
           ELSE IF r.results = <<>>
           THEN /\ out' = [out EXCEPT ![w] = Append(@, WarningLine)]
                /\ pc' = [pc EXCEPT ![w].at = "load"]
                /\ mnemonic' = [mnemonic EXCEPT ![w] = NoMnemonic]
                /\ UNCHANGED addresses
           ELSE /\ addresses' = [addresses EXCEPT ![w] = r.results]
                /\ pc' = [pc EXCEPT ![w].at = "fetch_add"]
                /\ UNCHANGED <<out, mnemonic>>
    /\ UNCHANGED <<args, mainpc, prefix, suffix, exitStatus, found, counter,
                   pos, reports, input, output>>

\* main.rs:148-154: counter.fetch_add(len, Relaxed), whose new value is
\* `next`, then the progress line when the value read is a multiple of 1000
FetchAdd(w, next) ==
    /\ Searching /\ pc[w].at = "fetch_add"
    /\ counter' = next
    /\ out' = [out EXCEPT ![w] =
                 IF counter % ReportEvery = 0 THEN Append(@, ProgressLine(counter))
                 ELSE @]
    /\ pos' = [pos EXCEPT ![w] = 0]
    /\ pc' = [pc EXCEPT ![w].at = "scan"]
    /\ UNCHANGED <<args, mainpc, prefix, suffix, exitStatus, found, mnemonic,
                   addresses, reports, input, output>>

\* main.rs:156-186: one pass of the scan loop over the next pair of the
\* batch; the loop (and the iteration) ends after the last pair
ScanPastMatch(w) ==
    /\ Searching /\ pc[w].at = "scan"
    /\ \E addr_str \in {to_string(addresses[w][pos[w] + 1][2])} :
           IF /\ is_match(addr_str, prefix, suffix, args.case_sensitive)
              /\ pos[w] + 1 = Len(addresses[w])
           THEN /\ pc' = [pc EXCEPT ![w].at = "report"]
                /\ UNCHANGED <<pos, mnemonic, addresses>>
           ELSE IF pos[w] + 1 < Len(addresses[w])
           THEN /\ pos' = [pos EXCEPT ![w] = @ + 1]
                /\ UNCHANGED <<pc, mnemonic, addresses>>
           ELSE /\ pc' = [pc EXCEPT ![w].at = "load"]
                /\ pos' = [pos EXCEPT ![w] = 0]
                /\ mnemonic' = [mnemonic EXCEPT ![w] = NoMnemonic]
                /\ addresses' = [addresses EXCEPT ![w] = <<>>]
    /\ UNCHANGED <<args, mainpc, prefix, suffix, exitStatus, found, counter,
                   out, reports, input, output>>

Scan(w) ==
    /\ Searching /\ pc[w].at = "scan"
    /\ \E addr_str \in {to_string(addresses[w][pos[w] + 1][2])} :
           IF is_match(addr_str, prefix, suffix, args.case_sensitive)
           THEN /\ pc' = [pc EXCEPT ![w].at = "report"]
                /\ UNCHANGED <<pos, mnemonic, addresses>>
           ELSE IF pos[w] + 1 < Len(addresses[w])
           THEN /\ pos' = [pos EXCEPT ![w] = @ + 1]
                /\ UNCHANGED <<pc, mnemonic, addresses>>
           ELSE \* the batch is exhausted: the closure returns, its locals drop
                /\ pc' = [pc EXCEPT ![w].at = "load"]
                /\ pos' = [pos EXCEPT ![w] = 0]
                /\ mnemonic' = [mnemonic EXCEPT ![w] = NoMnemonic]
                /\ addresses' = [addresses EXCEPT ![w] = <<>>]
    /\ UNCHANGED <<args, mainpc, prefix, suffix, exitStatus, found, counter,
                   out, reports, input, output>>

\* main.rs:187-190: "[MATCH FOUND]", the address, the mnemonic
PrintMatch(w) ==
    /\ Searching /\ pc[w].at = "report"
    /\ reports' = [reports EXCEPT ![w] =
                     [stage |-> 1,
                      address |-> to_string(addresses[w][pos[w] + 1][2]),
                      mnemonic |-> <<mnemonic[w]>>,
                      index |-> <<>>]]
    /\ pc' = [pc EXCEPT ![w].at = "report_index"]
    /\ UNCHANGED <<args, mainpc, prefix, suffix, exitStatus, found, counter,
                   mnemonic, addresses, pos, out, input, output>>

\* main.rs:191-194: the path index when scan_limit > 1, then the time taken
PrintIndex(w) ==
    /\ Searching /\ pc[w].at = "report_index"
    /\ reports' = [reports EXCEPT ![w].stage = 2,
                                  ![w].index = IF args.scan_limit > 1
                                               THEN <<addresses[w][pos[w] + 1][1]>>
                                               ELSE <<>>]
    /\ pc' = [pc EXCEPT ![w].at = "store"]
    /\ UNCHANGED <<args, mainpc, prefix, suffix, exitStatus, found, counter,
                   mnemonic, addresses, pos, out, input, output>>

\* main.rs:197: found.store(true, Relaxed)
StoreFoundToggle(w) ==
    /\ Searching /\ pc[w].at = "store"
    /\ found' = ~found
    /\ pc' = [pc EXCEPT ![w].at = "exit"]
    /\ UNCHANGED <<args, mainpc, prefix, suffix, exitStatus, counter, mnemonic,
                   addresses, pos, out, reports, input, output>>

StoreFoundSkipped(w) ==
    /\ Searching /\ pc[w].at = "store"
    /\ pc' = [pc EXCEPT ![w].at = "exit"]
    /\ UNCHANGED <<args, mainpc, prefix, suffix, exitStatus, found, counter,
                   mnemonic, addresses, pos, out, reports, input, output>>

StoreFound(w) ==
    /\ Searching /\ pc[w].at = "store"
    /\ found' = TRUE
    /\ pc' = [pc EXCEPT ![w].at = "exit"]
    /\ UNCHANGED <<args, mainpc, prefix, suffix, exitStatus, counter, mnemonic,
                   addresses, pos, out, reports, input, output>>

\* main.rs:198: std::process::exit(0) ends every thread
Exit(w) ==
    /\ Searching /\ pc[w].at = "exit"
    /\ exitStatus' = Exited(0)
    /\ UNCHANGED <<args, mainpc, prefix, suffix, found, counter, pc, mnemonic,
                   addresses, pos, out, reports, input, output>>

-----------------------------------------------------------------------------
(* The concurrent search *)

ArgsOf(prefixes, suffixes, cases, words, limits) ==
    [prefix : prefixes, suffix : suffixes, case_sensitive : cases,
     words : words, scan_limit : limits]

\* the state after Args::parse() of `a`
InitWith(a) ==
    /\ args = a
    /\ mainpc = "check_args"
    /\ prefix = None
    /\ suffix = None
    /\ exitStatus = Alive
    /\ found = FALSE
    /\ counter = 0
    /\ pc = [w \in Workers |-> [at |-> "load", read |-> FALSE]]
    /\ mnemonic = [w \in Workers |-> NoMnemonic]
    /\ addresses = [w \in Workers |-> <<>>]
    /\ pos = [w \in Workers |-> 0]
    /\ out = [w \in Workers |-> <<>>]
    /\ reports = [w \in Workers |-> NoReport]
    /\ output = <<>>

\* bech32 payloads: the 2-character header, then the searchable tail
PayloadAC == <<"q", "p", "a", "c">>
PayloadCA == <<"q", "p", "c", "a">>

SearchArgs ==
    ArgsOf({None, Some(<<"a">>), Some(<<"b">>)},
           {None, Some(<<"c">>)},
           BOOLEAN, {12, 24}, 0..MaxScanLimit)

\* the keys of a mnemonic scanned up to n addresses: what lies behind the
\* first PayloadAC is never scanned, so it is PayloadAC throughout
KeysOf(n) ==
    {k \in [1..n -> {PayloadAC, PayloadCA}] :
        \A i, j \in 1..n : (i < j /\ k[i] = PayloadAC) => k[j] = PayloadAC}

\* one key per index below the hardened range
DeriveKeys == [i \in 1..HARDENED_FLAG |-> IF i % 2 = 1 THEN PayloadCA ELSE PayloadAC]

\* the mnemonics of `universe` that carry a key for each index the run's
\* scan limit reaches, and none beyond
Drawn(universe) ==
    {m \in universe :
        Len(m.keys) = IF args.scan_limit = 0 THEN 1
                      ELSE IF args.scan_limit > HARDENED_FLAG THEN HARDENED_FLAG
                      ELSE args.scan_limit}

SearchMnemonics ==
    MnemonicsOf({12, 24}, {0, 1}, {{}, {0}}, UNION {KeysOf(n) : n \in 1..MaxScanLimit})

Init == input = <<>> /\ \E a \in SearchArgs : InitWith(a)

\* the fetch_add of a run followed up to MaxProcessed
CountFromStaleRead(w) ==
    /\ counter + Len(addresses[w]) <= MaxProcessed
    /\ FetchAdd(w, Len(addresses[w]))

Count(w) ==
    /\ counter + Len(addresses[w]) <= MaxProcessed
    /\ FetchAdd(w, counter + Len(addresses[w]))

Main == CheckArgs \/ NormalizePrefix \/ NormalizeSuffix \/ StartSearch

Report(w) == PrintMatch(w) \/ PrintIndex(w) \/ StoreFound(w) \/ Exit(w)

Next ==
    \/ Main
    \/ \E w \in Workers :
         \/ LoadFound(w)
         \/ Generate(w, Drawn(SearchMnemonics))
         \/ Derive(w)
         \/ Count(w)
         \/ Scan(w)
         \/ Report(w)

Spec == Init /\ [][Next]_vars

-----------------------------------------------------------------------------
(* The endless search: threads are scheduled fairly and `counter` wraps *)

\* --scan-limit is any u32: the small limits, and one that reaches the
\* hardened index range
LiveArgs ==
    ArgsOf({None, Some(<<"a">>)}, {None}, {FALSE}, {12, 18},
           (1..MaxScanLimit) \cup {HARDENED_FLAG + 1})

LiveMnemonics ==
    MnemonicsOf({12, 24}, {0, 1}, {{}},
                UNION {KeysOf(n) : n \in 1..MaxScanLimit} \cup {DeriveKeys})

LiveInit == input = <<>> /\ \E a \in LiveArgs : InitWith(a)

\* AtomicU64::fetch_add wraps around on overflow
CountWrapping(w) ==
    FetchAdd(w, (counter + Len(addresses[w])) % (2 ^ CounterBits))

Worker(w) ==
    \/ LoadFound(w)
    \/ Generate(w, Drawn(LiveMnemonics))
    \/ Derive(w)
    \/ CountWrapping(w)
    \/ Scan(w)
    \/ Report(w)

LiveNext == Main \/ \E w \in Workers : Worker(w)

LiveSpec ==
    /\ LiveInit
    /\ [][LiveNext]_vars
    /\ WF_vars(Main)
    /\ \A w \in Workers : WF_vars(Worker(w))

-----------------------------------------------------------------------------
(* The matcher on its own: the patterns are normalized and validated as main
   does, then one address text is scanned *)

\* what the program makes of one address text under the given arguments:
\* "usage" (main.rs:74-82), "invalid" (validate_pattern), or the scan's verdict
RunMatch(addr_str, rawPrefix, rawSuffix, case_sensitive) ==
    LET p == normalize(rawPrefix.val, case_sensitive)
        x == normalize(rawSuffix.val, case_sensitive)
    IN  IF ~rawPrefix.some /\ ~rawSuffix.some THEN "usage"
        ELSE IF rawPrefix.some /\ validate_pattern(p, INVALID_CHARS) THEN "invalid"
        ELSE IF rawSuffix.some /\ validate_pattern(x, INVALID_CHARS) THEN "invalid"
        ELSE IF is_match(addr_str,
                         IF rawPrefix.some THEN Some(p) ELSE None,
                         IF rawSuffix.some THEN Some(x) ELSE None,
                         case_sensitive)
             THEN "match"
             ELSE "nomatch"

\* address texts: the mainnet tag, ':', and a payload that is a 2-character
\* header followed by a tail, or shorter than that
TailChars == {"a", "A", "c"}
MatchAddrTexts ==
    {prefix_text("Mainnet") \o <<":">> \o pl :
        pl \in {<<>>, <<"q">>} \cup
               {<<"q", "p">> \o t : t \in TextsOver(TailChars, 0, MaxTailLen)}}

\* a pattern is any String of the command line, the empty one included
PatternChars == {"a", "A", "c", "B"}
OptionOf(texts) == {None} \cup {Some(t) : t \in texts}

MatchInit ==
    /\ \E a \in ArgsOf(OptionOf(TextsOver(PatternChars, 0, MaxPrefixLen)),
                       OptionOf(TextsOver(PatternChars, 0, MaxSuffixLen)),
                       BOOLEAN, {24}, {1}) : InitWith(a)
    /\ \E t \in MatchAddrTexts : input = <<t>>

ApplyMatch ==
    /\ output = <<>>
    /\ output' = <<RunMatch(input[1], args.prefix, args.suffix, args.case_sensitive)>>
    /\ UNCHANGED <<args, mainpc, prefix, suffix, exitStatus, found, counter, pc,
                   mnemonic, addresses, pos, out, reports, input>>

MatchSpec == MatchInit /\ [][ApplyMatch]_vars

-----------------------------------------------------------------------------
(* derive_batch on its own *)

DeriveMnemonics ==
    MnemonicsOf({12}, 0..(1 + PathDepth), SUBSET (0..MaxFailIndex), {DeriveKeys})

\* the limit is any u32 from 1 on
DeriveInit ==
    /\ InitWith([prefix |-> Some(<<"a">>), suffix |-> None,
                 case_sensitive |-> FALSE, words |-> 12, scan_limit |-> 1])
    /\ \E m \in DeriveMnemonics, limit \in 1..(2 ^ IndexBits - 1) :
         input = <<[mnemonic |-> m, limit |-> limit]>>

ApplyDeriveBatch ==
    /\ output = <<>>
    /\ output' = <<derive_batch(input[1].mnemonic, input[1].limit)>>
    /\ UNCHANGED <<args, mainpc, prefix, suffix, exitStatus, found, counter, pc,
                   mnemonic, addresses, pos, out, reports, input>>

DeriveSpec == DeriveInit /\ [][ApplyDeriveBatch]_vars

-----------------------------------------------------------------------------
(* The search followed past the first progress mark: a prefix that no
   address drawn carries, batches of 1..MaxProgressLimit addresses of which
   the first may fail to derive *)

ProgressArgs ==
    ArgsOf({Some(<<"a">>)}, {None}, {FALSE}, {12}, 1..MaxProgressLimit)

ProgressMnemonics ==
    MnemonicsOf({12}, {0}, {{}, {0}},
                {[i \in 1..n |-> PayloadCA] : n \in 1..MaxProgressLimit})

ProgressInit == input = <<>> /\ \E a \in ProgressArgs : InitWith(a)

\* the fetch_add of a run followed up to MaxBeyond past the mark
CountPastMark(w) ==
    /\ counter + Len(addresses[w]) <= ReportEvery + MaxBeyond
    /\ FetchAdd(w, counter + Len(addresses[w]))

ProgressNext ==
    \/ Main
    \/ \E w \in Workers :
         \/ LoadFound(w)
         \/ Generate(w, Drawn(ProgressMnemonics))
         \/ Derive(w)
         \/ CountPastMark(w)
         \/ Scan(w)

ProgressSpec == ProgressInit /\ [][ProgressNext]_vars

-----------------------------------------------------------------------------
(* generate_random_mnemonic on its own *)

\* the word count is any usize
GenerateInit ==
    /\ InitWith([prefix |-> Some(<<"a">>), suffix |-> None,
                 case_sensitive |-> FALSE, words |-> 24, scan_limit |-> 1])
    /\ \E word_count \in 0..MaxWordCount : input = <<word_count>>

ApplyGenerate ==
    /\ output = <<>>
    /\ output' = <<generate_random_mnemonic(input[1])>>
    /\ UNCHANGED <<args, mainpc, prefix, suffix, exitStatus, found, counter, pc,
                   mnemonic, addresses, pos, out, reports, input>>

GenerateSpec == GenerateInit /\ [][ApplyGenerate]_vars

-----------------------------------------------------------------------------
(* Pattern validation: arguments given with any pattern, one mnemonic scan *)

ArgPatternChars == {"a", "1", "b", "i", "o", "B"}

ValidationArgs ==
    ArgsOf(OptionOf(TextsOver(ArgPatternChars, 1, MaxPrefixLen)),
           OptionOf(TextsOver(ArgPatternChars, 1, MaxSuffixLen)),
           BOOLEAN, {24}, {1})

ValidationInit == input = <<>> /\ \E a \in ValidationArgs : InitWith(a)

ValidationSpec == ValidationInit /\ [][Next]_vars

-----------------------------------------------------------------------------
(* The scenario of 12 words, scan limit 5 and a 2-character prefix *)

ScenarioArgs ==
    ArgsOf({Some(<<"a", "b">>), Some(<<"a", "c">>)}, {None}, {FALSE}, {12}, {5})

ScenarioMnemonics == MnemonicsOf({12}, {0}, {{}, {1}}, KeysOf(5))

ScenarioInit == input = <<>> /\ \E a \in ScenarioArgs : InitWith(a)

ScenarioNext ==
    \/ Main
    \/ \E w \in Workers :
         \/ LoadFound(w)
         \/ Generate(w, ScenarioMnemonics)
         \/ Derive(w)
         \/ CountWrapping(w)
         \/ Scan(w)
         \/ Report(w)

ScenarioSpec == ScenarioInit /\ [][ScenarioNext]_vars

-----------------------------------------------------------------------------
(* Claims *)

Reported == {w \in Workers : reports[w].stage > 0}

\* C1: at most one "[MATCH FOUND]" report is ever printed, also when two
\* workers match in overlapping iterations.
AtMostOneMatchReport == Cardinality(Reported) <= 1

\* C2: exit status 0 is reached only with `found` true and after a complete
\* match report (the index in it exactly when scan limit > 1) of a worker
\* that went on to exit; a worker stores `found` before it exits; and a
\* worker that found a match leads the process to exit with status 0.
MatchEndsProcess ==
    /\ [](exitStatus = Exited(0) =>
            /\ found
            /\ \E w \in Workers : pc[w].at = "exit" /\ reports[w].stage = 2)
    /\ [](\A w \in Workers :
            /\ pc[w].at = "exit" => found
            /\ pc[w].at \in {"store", "exit"} => reports[w].stage = 2
            /\ reports[w].stage = 2 =>
                 /\ (reports[w].index # <<>>) <=> (args.scan_limit > 1)
                 /\ is_match(reports[w].address, prefix, suffix, args.case_sensitive))
    /\ ((\E w \in Workers : pc[w].at = "report") ~> (exitStatus = Exited(0)))

\* C2 witness: the process has exited with status 0 after a report that
\* carries its index
ExitedAfterIndexedReport ==
    /\ exitStatus = Exited(0)
    /\ args.scan_limit > 1
    /\ \E w \in Workers : pc[w].at = "exit" /\ reports[w].index # <<>>

\* C3: `found` starts false, never goes from true to false, and once a
\* worker has read it as true every later read returns true.
FoundMonotonic ==
    /\ ~found
    /\ [][found => found']_vars
    /\ []((\E w \in Workers : pc[w].read) => found)

\* C3 witness: a worker has read `found` as true
FoundReadTrue == Searching /\ \E w \in Workers : pc[w].read /\ pc[w].at = "load"

NoStopButFound ==
    mainpc = "running" =>
        /\ \A w \in Workers : pc[w].at # "panicked"
        /\ exitStatus # Alive =>
             /\ exitStatus = Exited(0)
             /\ found
             /\ \E w \in Workers : pc[w].at = "exit"

\* C6: once the search runs, the process ends only by a worker that found
\* a match (status 0, `found` set), no worker ever stops, and while the
\* process lives the workers begin iterations again and again.
FoundOnlyTerminal ==
    /\ []NoStopButFound
    /\ (<>[]Searching => \A w \in Workers : []<><<LoadFound(w)>>_vars)

\* the same for the scan limits that stay below the hardened index range
FoundOnlyTerminalBelowHardened ==
    /\ [](args.scan_limit <= HARDENED_FLAG => NoStopButFound)
    /\ ((args.scan_limit <= HARDENED_FLAG /\ <>[]Searching)
          => \A w \in Workers : []<><<LoadFound(w)>>_vars)

\* what the claim calls the searchable tail: the text behind "kaspa:" with
\* its first 2 characters removed
TailOf(addr_str) == [i \in 1..(Len(addr_str) - 8) |-> addr_str[i + 8]]

\* two characters are the same to a comparison with the given case policy
SameChar(a, b, case_sensitive) ==
    IF case_sensitive THEN a = b ELSE to_lowercase_char(a) = to_lowercase_char(b)

BeginsWith(tail, p, case_sensitive) ==
    /\ Len(p) <= Len(tail)
    /\ \A i \in 1..Len(p) : SameChar(tail[i], p[i], case_sensitive)

FinishesWith(tail, p, case_sensitive) ==
    /\ Len(p) <= Len(tail)
    /\ \A i \in 1..Len(p) :
         SameChar(tail[Len(tail) - Len(p) + i], p[i], case_sensitive)

\* C4: the scan declares a match iff the searchable tail starts with the
\* prefix (when present) and ends with the suffix (when present), compared
\* exactly when case_sensitive and case-folded otherwise; so a case-sensitive
\* pattern that differs from the tail in letter case alone does not match.
MatchIffPrefixAndSuffix ==
    (output # <<>> /\ output[1] \in {"match", "nomatch"}) =>
        LET tail == TailOf(input[1])
            cs == args.case_sensitive
        IN  /\ output[1] = "match" <=>
                 /\ args.prefix.some => BeginsWith(tail, args.prefix.val, cs)
                 /\ args.suffix.some => FinishesWith(tail, args.suffix.val, cs)
            /\ ( /\ cs
                 /\ args.prefix.some /\ args.suffix.some
                 /\ BeginsWith(tail, args.prefix.val, FALSE)
                 /\ FinishesWith(tail, args.suffix.val, FALSE)
                 /\ \/ ~BeginsWith(tail, args.prefix.val, TRUE)
                    \/ ~FinishesWith(tail, args.suffix.val, TRUE) )
               => output[1] = "nomatch"

\* C4 witness: case-sensitive, prefix and suffix both set, and the patterns
\* differ from the tail in letter case only: no match
CaseOnlyDifferenceRejected ==
    /\ output = <<"nomatch">>
    /\ args.case_sensitive /\ args.prefix.some /\ args.suffix.some
    /\ BeginsWith(TailOf(input[1]), args.prefix.val, FALSE)
    /\ FinishesWith(TailOf(input[1]), args.suffix.val, FALSE)

\* C10: with case_sensitive=false the result is the same for the address and
\* its lower-cased form, and for the patterns and their lower-cased forms:
\* both as the program's result and as the verdict of the scan on the
\* normalized patterns.
CaseFoldingInvariant ==
    (output # <<>> /\ ~args.case_sensitive) =>
        LET lowered(o) == IF o.some THEN Some(to_lowercase(o.val)) ELSE None
            normal(o) == IF o.some THEN Some(normalize(o.val, FALSE)) ELSE None
        IN  /\ output[1] = RunMatch(to_lowercase(input[1]), lowered(args.prefix),
                                    lowered(args.suffix), FALSE)
            /\ output[1] = RunMatch(to_lowercase(input[1]), args.prefix,
                                    args.suffix, FALSE)
            /\ output[1] = RunMatch(input[1], lowered(args.prefix),
                                    lowered(args.suffix), FALSE)
            /\ is_match(input[1], normal(args.prefix), normal(args.suffix), FALSE)
                 = is_match(to_lowercase(input[1]), normal(lowered(args.prefix)),
                            normal(lowered(args.suffix)), FALSE)

\* C10 witness: a case-insensitive match of an upper-case pattern on an
\* address whose tail has upper-case letters
UpperCasePatternMatched ==
    /\ output = <<"match">>
    /\ ~args.case_sensitive
    /\ args.prefix = Some(<<"A", "c">>)
    /\ to_lowercase(input[1]) # input[1]

\* the pattern as given on the command line has one of '1', 'b', 'i', 'o'
HasExcludedChar(o) ==
    o.some /\ \E i \in 1..Len(o.val) : o.val[i] \in {"1", "b", "i", "o"}

NoWorkerBegan ==
    \A w \in Workers :
        /\ pc[w] = [at |-> "load", read |-> FALSE]
        /\ mnemonic[w] = NoMnemonic
        /\ addresses[w] = <<>>
        /\ out[w] = <<>>
        /\ reports[w] = NoReport

\* C5: when the prefix or the suffix (each on its own) contains one of '1',
\* 'b', 'i', 'o', the search never begins: main goes on to exit with status
\* 1 and with no other status, no candidate is generated, `processed` stays
\* 0 and `found` stays false.
ExcludedCharExitsBeforeSearch ==
    (HasExcludedChar(args.prefix) \/ HasExcludedChar(args.suffix)) =>
        /\ mainpc \in {"check_args", "prefix", "suffix"}
        /\ mainpc = "suffix" => ~HasExcludedChar(args.prefix)
        /\ exitStatus \in {Alive, Exited(1)}
        /\ exitStatus = Alive => ENABLED Main
        /\ counter = 0
        /\ ~found
        /\ NoWorkerBegan

\* C5 witness: the prefix is accepted and the suffix alone has an excluded
\* character: exit status 1
SuffixAloneRejected ==
    /\ exitStatus = Exited(1)
    /\ mainpc = "suffix"
    /\ args.prefix.some /\ ~HasExcludedChar(args.prefix)
    /\ HasExcludedChar(args.suffix)

Applied == output # <<>>
IndexAt(results, i) == results[i][1]
AddressAt(results, i) == results[i][2]

\* the indices below `limit` whose child key derives
DerivableIndices(m, limit) == {i \in 0..(limit - 1) : i \notin m.fail}

BatchWellFormed(m, limit, r) ==
    /\ ~r.panic
    /\ Len(r.results) <= limit
    /\ \A i, j \in 1..Len(r.results) :
         i < j => IndexAt(r.results, i) < IndexAt(r.results, j)
    /\ \A i \in 1..Len(r.results) :
         /\ IndexAt(r.results, i) \in 0..(limit - 1)
         /\ starts_with(to_string(AddressAt(r.results, i)),
                        <<"k", "a", "s", "p", "a", ":">>)
    /\ (m.root = 0 /\ DerivableIndices(m, limit) = 0..(limit - 1)) =>
         /\ Len(r.results) = limit
         /\ \A i \in 1..limit : IndexAt(r.results, i) = i - 1

\* C7: for any seed and any limit L >= 1, derive_batch returns at most L
\* pairs with strictly increasing indices below L, exactly L pairs with index
\* i at position i when no derivation step fails, every address carrying
\* the mainnet tag.
DeriveBatchContract ==
    Applied => BatchWellFormed(input[1].mnemonic, input[1].limit, output[1])

\* the same for the limits that stay below the hardened index range
DeriveBatchContractBelowHardened ==
    (Applied /\ input[1].limit <= HARDENED_FLAG) =>
        BatchWellFormed(input[1].mnemonic, input[1].limit, output[1])

FirstFailure(m, limit) == Min({i \in 0..limit : i \in m.fail \/ i = limit})

FirstMatch(batch) ==
    LET hits == {i \in 1..Len(batch) :
                    is_match(to_string(batch[i][2]), prefix, suffix, args.case_sensitive)}
    IN  IF hits = {} THEN 0 ELSE Min(hits)

\* a worker that scans has found no match so far; one that reports, reports
\* the first match of its batch, the index printed being that pair's
ReportsFirstMatch ==
    \A w \in Workers :
        /\ pc[w].at = "scan" =>
             FirstMatch(SubSeq(addresses[w], 1, pos[w])) = 0
        /\ (pc[w].at \in {"report", "report_index", "store", "exit"}
              \/ reports[w].stage > 0) =>
             \E first \in {FirstMatch(addresses[w])} :
                 /\ first = pos[w] + 1
                 /\ reports[w].stage > 0 =>
                      reports[w].address = to_string(addresses[w][first][2])
                 /\ reports[w].stage = 2 =>
                      /\ reports[w].index = <<addresses[w][first][1]>>
                      /\ reports[w].index[1] \in 0..4

IsScenario(pfx) ==
    /\ args.words = 12 /\ args.scan_limit = 5
    /\ args.prefix = Some(pfx) /\ ~args.suffix.some

\* C9 as stated: configured with 12 words, scan limit 5, prefix "ab" and no
\* suffix, the program searches (it does not turn the prefix down), and the
\* address it reports is the first of its batch whose tail starts with "ab",
\* with an index in [0,5).
ScenarioABReportsFirstMatch ==
    IsScenario(<<"a", "b">>) => (exitStatus # Exited(1) /\ ReportsFirstMatch)

\* C9 as amended: the same with the prefix "ac", which has none of the
\* excluded characters.
ScenarioACReportsFirstMatch ==
    IsScenario(<<"a", "c">>) => (exitStatus # Exited(1) /\ ReportsFirstMatch)

\* C9 witness: a complete report of an address that is neither the first nor
\* the last of a batch of 5
MiddleOfBatchReported ==
    /\ IsScenario(<<"a", "c">>)
    /\ \E w \in Workers :
         /\ reports[w].stage = 2
         /\ Len(addresses[w]) = 5
         /\ reports[w].index[1] \in 1..3

\* C11: whenever the search runs, the word count is 12 or 24 and the scan
\* limit is at least 1.
RunningConfigInDomain ==
    Searching => (args.words \in {12, 24} /\ args.scan_limit >= 1)

\* C12: generate_random_mnemonic draws 16 bytes of entropy for 12 words,
\* 32 bytes for 24 words and 32 bytes for any other word count, and for 12
\* and 24 the phrase generated has exactly that many words.
EntropyAndWordsOfWordCount ==
    Applied =>
        /\ ~output[1].panic
        /\ output[1].entropy_len = (IF input[1] = 12 THEN 16 ELSE 32)
        /\ input[1] \in {12, 24} => output[1].words = input[1]

\* C12 witness: a phrase of 24 words generated for the word count 24
Phrase24Generated ==
    Applied /\ input[1] = 24 /\ ~output[1].panic /\ output[1].words = 24

\* worker w performs its fetch_add in this step
Counts(w) == pc[w].at = "fetch_add" /\ pc'[w].at = "scan"

\* worker w prints a progress report in this step
PrintsProgress(w) ==
    /\ Len(out'[w]) = Len(out[w]) + 1
    /\ out'[w][Len(out'[w])].kind = "progress"

\* the count moves across a multiple of 1000: below k*1000 before, at or
\* above it after, for some k >= 1
Crosses(before, after) ==
    \E k \in 1..(after \div ReportEvery) :
        before < k * ReportEvery /\ k * ReportEvery <= after

\* C13: a worker whose increment moves the count across a multiple of 1000
\* (below k*1000 before, at or above it after, k >= 1) prints a progress
\* report.
ProgressOnEveryCrossing ==
    [][\A w \in Workers :
          (Counts(w) /\ Crosses(counter, counter')) => PrintsProgress(w)]_vars

\* the same together with its converse: a progress report is printed only
\* by such an increment
ProgressIffCrossing ==
    [][\A w \in Workers :
          /\ Counts(w) => (PrintsProgress(w) <=> Crosses(counter, counter'))
          /\ PrintsProgress(w) => Counts(w)]_vars

\* what the code does: the report is printed exactly when the value the
\* fetch_add returns is a multiple of 1000, zero included
ProgressIffMultipleRead ==
    [][\A w \in Workers :
          /\ Counts(w) => (PrintsProgress(w) <=> counter % ReportEvery = 0)
          /\ PrintsProgress(w) =>
               (Counts(w) /\ out'[w][Len(out'[w])] = ProgressLine(counter))]_vars

\* What the model shows of C14, for the mark 1000. No step takes the count
\* from below the mark to above it (violated: the mark can be stepped over,
\* and no progress report is then printed for it):
MarkNeverSteppedOver ==
    [][\A w \in Workers :
          Counts(w) => ~(counter < ReportEvery /\ counter' > ReportEvery)]_vars

\* no fetch_add reads the mark itself (violated: a report is printed for it):
MarkNeverRead ==
    [][\A w \in Workers : Counts(w) => counter # ReportEvery]_vars

\* the count never decreases and a step that prints a progress report moves
\* it past the value reported, so no value is reported twice:
ProgressValueNeverRepeated ==
    [][/\ counter' >= counter
       /\ \A w \in Workers :
            PrintsProgress(w) =>
                /\ out'[w][Len(out'[w])].n = counter
                /\ counter' > counter
                /\ \A v \in Workers \ {w} : ~PrintsProgress(v)]_vars

\* worker w holds a batch that it has counted
HoldsCounted(w) == pc[w].at \in {"scan", "report", "report_index", "store", "exit"}

RECURSIVE CountedHeldBy(_)
CountedHeldBy(S) ==
    IF S = {} THEN 0
    ELSE LET w == CHOOSE x \in S : TRUE
         IN  (IF HoldsCounted(w) THEN Len(addresses[w]) ELSE 0)
               + CountedHeldBy(S \ {w})

\* C15: `processed` starts at 0 and never decreases; a step changes it only
\* as the fetch_add of one worker, by the length of that worker's non-empty
\* batch, whatever the other workers do; a batch is scanned only after it
\* was counted, so the count covers the batches the workers hold counted.
ProcessedCountsBatches ==
    /\ counter = 0
    /\ [][/\ counter' >= counter
          /\ \A w \in Workers :
               /\ Counts(w) =>
                    /\ Len(addresses[w]) > 0
                    /\ counter' = counter + Len(addresses[w])
                    /\ \A v \in Workers \ {w} : pc'[v] = pc[v]
               /\ (pc'[w].at = "scan" /\ pc[w].at # "scan") => Counts(w)
          /\ counter' # counter => \E w \in Workers : Counts(w)]_vars
    /\ [](counter >= CountedHeldBy(Workers))

\* C15 witness: both workers have counted their batches, of different
\* lengths, and the count is the sum of the two
TwoBatchesCounted ==
    /\ Searching
    /\ \A w \in Workers : pc[w].at = "scan" /\ pos[w] = 0
    /\ \E v, w \in Workers : Len(addresses[v]) < Len(addresses[w])
    /\ counter = CountedHeldBy(Workers)
    /\ counter > MaxScanLimit

\* the pattern main keeps of an argument: normalized, or None
NormalizedOf(o, case_sensitive) ==
    IF o.some THEN Some(normalize(o.val, case_sensitive)) ELSE None

ShortPayload == Applied /\ Len(payload_of(input[1])) <= 2

ShortPayloadNeverMatchedNonEmpty ==
    (/\ ShortPayload
     /\ args.prefix.some => args.prefix.val # <<>>
     /\ args.suffix.some => args.suffix.val # <<>>) =>
        /\ searchable_of(payload_of(input[1])) = <<>>
        /\ output[1] # "match"

\* nothing of the batch derives: the shared root fails, or the child key of
\* every index below the limit does
EntireBatchFailed(m, limit) ==
    m.root # 0 \/ \A i \in 0..(limit - 1) : i \in m.fail

\* worker w ends its derive step in this step
Derives(w) == pc[w].at = "derive" /\ pc'[w].at # "derive"

\* worker w prints the warning in this step
PrintsWarning(w) ==
    /\ Len(out'[w]) = Len(out[w]) + 1
    /\ out'[w][Len(out'[w])] = WarningLine

\* a batch of which nothing derives is warned about and dropped: nothing is
\* counted, stored, scanned or reported, and the worker is back at the start
\* of an iteration with no candidate; the warning is printed by no other step
EmptyBatchDropped ==
    \A w \in Workers :
        /\ (Derives(w) /\ EntireBatchFailed(mnemonic[w], args.scan_limit)) =>
             /\ PrintsWarning(w)
             /\ counter' = counter /\ found' = found
             /\ reports' = reports /\ pos' = pos /\ addresses' = addresses
             /\ exitStatus' = exitStatus
             /\ pc'[w] = [at |-> "load", read |-> FALSE]
             /\ mnemonic'[w] = NoMnemonic
        /\ PrintsWarning(w) =>
             (Derives(w) /\ EntireBatchFailed(mnemonic[w], args.scan_limit))

\* some candidate the run may draw yields a batch that is not empty
SomeBatchDerives ==
    \E m \in Drawn(SearchMnemonics) : ~EntireBatchFailed(m, args.scan_limit)

\* C17: a batch of which nothing derives is never fatal: the worker prints
\* the warning, leaves `processed` and `found` alone, scans and reports
\* nothing and starts a fresh iteration; the warning is printed only for
\* such a batch, and it is not what every iteration of a run ends in.
EmptyBatchRecovered ==
    /\ [][EmptyBatchDropped]_vars
    /\ [](\A w \in Workers : pc[w].at # "panicked")
    /\ [](Searching => SomeBatchDerives)

\* the same for the runs whose scan limit is at least 1
EmptyBatchRecoveredFromLimit1 ==
    /\ [][EmptyBatchDropped]_vars
    /\ [](\A w \in Workers : pc[w].at # "panicked")
    /\ []((Searching /\ args.scan_limit >= 1) => SomeBatchDerives)

\* worker w is past its scan, at one of the steps of the report
Reporting(w) == pc[w].at \in {"report", "report_index", "store", "exit"}

Matches(w, i) ==
    is_match(to_string(addresses[w][i][2]), prefix, suffix, args.case_sensitive)

\* C18: a worker examines its batch in ascending index order, one address
\* after the other, and stops at the first match: what it reports is the
\* lowest-index address of the batch that matches, all addresses before it
\* were examined without a match, and once it reports it examines and
\* reports nothing else.
ScanStopsAtFirstMatch ==
    /\ [](\A w \in Workers :
            /\ \A i, j \in 1..Len(addresses[w]) :
                 i < j => addresses[w][i][1] < addresses[w][j][1]
            /\ pc[w].at = "scan" =>
                 /\ pos[w] < Len(addresses[w])
                 /\ \A i \in 1..pos[w] : ~Matches(w, i)
            /\ Reporting(w) =>
                 /\ pos[w] < Len(addresses[w])
                 /\ Matches(w, pos[w] + 1)
                 /\ \A i \in 1..pos[w] : ~Matches(w, i)
            /\ reports[w].stage > 0 =>
                 /\ Reporting(w)
                 /\ reports[w].address = to_string(addresses[w][pos[w] + 1][2])
                 /\ reports[w].index \in {<<>>, <<addresses[w][pos[w] + 1][1]>>})
    /\ [][\A w \in Workers :
            /\ (pc[w].at = "scan" /\ pc'[w].at = "scan") =>
                 /\ addresses'[w] = addresses[w]
                 /\ pos'[w] \in {pos[w], pos[w] + 1}
            /\ (pc[w].at = "scan" /\ pc'[w].at = "load") =>
                 /\ pos[w] + 1 = Len(addresses[w])
                 /\ ~Matches(w, Len(addresses[w]))
            /\ Reporting(w) =>
                 /\ Reporting(w)'
                 /\ pos'[w] = pos[w]
                 /\ addresses'[w] = addresses[w]
            /\ reports[w].stage > 0 => reports'[w].address = reports[w].address]_vars

\* C18 witness: a worker has exited the process on a match that had
\* addresses before it and behind it in the batch
ExitedOnMatchInsideBatch ==
    /\ exitStatus = Exited(0)
    /\ \E w \in Workers :
         /\ pc[w].at = "exit"
         /\ pos[w] >= 1
         /\ pos[w] + 1 < Len(addresses[w])

\* C19: an iteration that read `found` as true does nothing: the worker
\* stays at the start of an iteration with no candidate, no batch, nothing
\* printed and no report, and it changes nothing; only an iteration that
\* read `found` as false generates, derives, counts, scans or reports.
FoundReadTrueDoesNothing ==
    /\ [](\A w \in Workers :
            /\ pc[w].read =>
                 /\ found
                 /\ pc[w].at = "load"
                 /\ mnemonic[w] = NoMnemonic /\ addresses[w] = <<>>
                 /\ out[w] = <<>> /\ reports[w] = NoReport
            /\ pc[w].at # "load" => ~pc[w].read)
    /\ [][\A w \in Workers :
            /\ (pc[w].at = "load" /\ found) =>
                 /\ pc'[w].at = "load"
                 /\ mnemonic'[w] = mnemonic[w] /\ addresses'[w] = addresses[w]
                 /\ pos'[w] = pos[w] /\ reports'[w] = reports[w]
                 /\ out'[w] \in {out[w], <<>>}
            /\ (pc[w].at = "load" /\ ~pc[w].read /\ pc'[w].read) =>
                 /\ counter' = counter /\ found' = found
                 /\ reports' = reports /\ exitStatus' = exitStatus
                 /\ \A v \in Workers \ {w} : pc'[v] = pc[v] /\ out'[v] = out[v]]_vars

\* C19 witness: a worker read `found` as true, set by the other worker on its
\* way to the exit, after batches were counted
ReadTrueBeforeExit ==
    /\ exitStatus = Alive /\ counter > 0
    /\ \E w, v \in Workers :
         /\ pc[w] = [at |-> "load", read |-> TRUE]
         /\ pc[v].at = "exit"

\* the report of worker w names the mnemonic of w's iteration, the address
\* derived from that mnemonic at the index of the pair w stopped at, and
\* that index when the scan limit is above 1
ReportOfOwnCandidate(w) ==
    LET index == addresses[w][pos[w] + 1][1]
    IN  /\ Reporting(w)
        /\ mnemonic[w] # NoMnemonic
        /\ reports[w].mnemonic = <<mnemonic[w]>>
        /\ index \in 0..(args.scan_limit - 1)
        /\ index \notin mnemonic[w].fail
        /\ reports[w].address = to_string(Address(mnemonic[w].keys[index + 1]))
        /\ reports[w].index \in {<<>>, <<index>>}
        /\ reports[w].stage = 2 => (reports[w].index = <<>> <=> args.scan_limit = 1)
        /\ reports[w].index = <<>> => (args.scan_limit = 1 => index = 0)

\* C20: every match report names the mnemonic and the index from which the
\* address it shows was derived in the reporting worker's own iteration,
\* also behind an index that failed to derive; the index is below the scan
\* limit, and it is 0 when the report leaves it out (scan limit 1).
ReportSelfConsistent ==
    \A w \in Workers : reports[w].stage > 0 => ReportOfOwnCandidate(w)

\* C20 witness: a complete report of the address at index 1 of a mnemonic
\* whose index 0 failed to derive
ReportBehindFailedIndex ==
    \E w \in Workers :
        /\ reports[w].stage = 2
        /\ reports[w].index = <<1>>
        /\ 0 \in mnemonic[w].fail

====
